---- MODULE Spec2Model ----
(***************************************************************************)
(* Model of the annotation tool's Apps Script back end                     *)
(* (apps-script/do_get.gs and its older variant do_get.js): the RPCs       *)
(* downloadLabels, updateLabel and getParaDict acting on a spreadsheet and *)
(* on CSV batch files in a storage bucket.                                 *)
(*                                                                         *)
(* JavaScript strings are modelled as sequences of one-character strings,  *)
(* so that slicing, searching, splitting and the id pattern are computed.  *)
(***************************************************************************)
EXTENDS Integers, Sequences, FiniteSets, TLC

VARIABLES
    variant,    \* "gs" (do_get.gs) or "js" (do_get.js): which file is deployed
    storage,    \* the bucket: file key -> [code, body]
    sheets,     \* the spreadsheet: sequence of [name, rows, bg]
    pc,         \* "idle", or the position inside a running downloadLabels
    i,          \* downloadLabels: the loop variable i
    csv,        \* downloadLabels: the accumulated text
    requests,   \* log of the fetches of the running/last downloadLabels
    op,         \* the last RPC started
    outcome,    \* how it ended: "running", "done", "fault", "null", "json"
    ret,        \* getParaDict: the dictionary that was serialised
    counts,     \* buildParaDictFromSheet: <<pageCount, paraCount>> as logged
    args,       \* updateLabel: <<id, label>> as given, or <<>>
    touched,    \* updateLabel: <<row, column>> of the cell written, or <<>>
    before,     \* the sheets as they were when the last RPC started
    labelData,  \* downloadLabels: the rows after the 'label' column block
    dlLeft,     \* downloadLabels invocations still to be explored
    upLeft      \* updateLabel invocations still to be explored

vars == <<variant, storage, sheets, pc, i, csv, requests, op, outcome, ret,
          counts, args, touched, before, labelData, dlLeft, upLeft>>

(***************************************************************************)
(* Bounds of the model.                                                    *)
(***************************************************************************)
MaxFetch == 11      \* loop iterations of one downloadLabels that are explored
MaxDownloads == 3   \* downloadLabels invocations per behaviour
MaxUpdates == 1     \* updateLabel invocations per behaviour
MaxRows == 3        \* data rows of a generated CSV file
MaxBatches == 3     \* batch files of a bucket that is not full

(***************************************************************************)
(* Strings.                                                                *)
(***************************************************************************)
Digits == <<"0", "1", "2", "3", "4", "5", "6", "7", "8", "9">>

IsDigit(c) == \E k \in 1..10 : Digits[k] = c

DigitVal(c) == (CHOOSE k \in 1..10 : Digits[k] = c) - 1

\* Number -> String of a non-negative integer ('000' + i, area cells)
RECURSIVE ToText(_)
ToText(n) == IF n < 10 THEN <<Digits[n + 1]>>
             ELSE ToText(n \div 10) \o <<Digits[(n % 10) + 1]>>

IsNumeral(s) == Len(s) > 0 /\ \A k \in 1..Len(s) : IsDigit(s[k])

\* String -> Number of a numeral
RECURSIVE ToNumber(_)
ToNumber(s) == IF Len(s) = 0 THEN 0
               ELSE 10 * ToNumber(SubSeq(s, 1, Len(s) - 1)) + DigitVal(s[Len(s)])

\* String.prototype.slice(-n)
SliceLast(s, n) == IF Len(s) <= n THEN s ELSE SubSeq(s, Len(s) - n + 1, Len(s))

\* needle occurs in hay (a partial, not whole-cell, match)
Contains(hay, needle) ==
    \E k \in 0..(Len(hay) - Len(needle)) :
        SubSeq(hay, k + 1, k + Len(needle)) = needle

RECURSIVE Flatten(_)
Flatten(ss) == IF ss = <<>> THEN <<>> ELSE Head(ss) \o Flatten(Tail(ss))

RECURSIVE SplitFrom(_, _, _)
SplitFrom(s, sep, start) ==
    LET P == {k \in start..Len(s) : s[k] = sep} IN
    IF P = {} THEN <<SubSeq(s, start, Len(s))>>
    ELSE LET p == CHOOSE x \in P : \A y \in P : x <= y
         IN <<SubSeq(s, start, p - 1)>> \o SplitFrom(s, sep, p + 1)

(***************************************************************************)
(* Configuration (do_get.gs, "config" and "init").                         *)
(***************************************************************************)
pdfId == <<"a", "b", "c", "d">>

BatchStart == 1         \* for (var i = 1; ...
BatchStep == 100        \* ... i += 100)
PadWidth == 3           \* ('000' + i).slice(-3)
BodyThreshold == 100    \* x[1].length > 100

\* var batchId = pdfId + '-' + ('000' + i).slice(-3);
batchId(idx) == pdfId \o <<"-">> \o SliceLast(<<"0", "0", "0">> \o ToText(idx), PadWidth)

\* bucketUrl + batchId + '-features.csv' / '-labels.csv'
urlFeature(idx) == <<batchId(idx), "features">>
urlLabel(idx) == <<batchId(idx), "labels">>

\* every object name the loop can ask for: the suffix has PadWidth digits
Slots == 0..(((10 ^ PadWidth) \div BatchStep) - 1)

Urls == {urlFeature(BatchStart + BatchStep * k) : k \in Slots}
            \cup {urlLabel(BatchStart + BatchStep * k) : k \in Slots}

\* UrlFetchApp.fetch(url, {muteHttpExceptions: true}): the response, never a throw
authFetch(url) == storage[url]

(***************************************************************************)
(* CSV text.                                                               *)
(***************************************************************************)
NL == "\n"
COMMA == ","

\* the text of a CSV file holding the given rows (an input generator)
RECURSIVE JoinCells(_)
JoinCells(row) == IF Len(row) = 0 THEN <<>>
                  ELSE IF Len(row) = 1 THEN row[1]
                  ELSE row[1] \o <<COMMA>> \o JoinCells(Tail(row))

RECURSIVE CsvText(_)
CsvText(rows) == IF rows = <<>> THEN <<>>
                 ELSE JoinCells(Head(rows)) \o <<NL>> \o CsvText(Tail(rows))

\* Utilities.parseCsv(csv): lines split at newlines, cells at commas; the
\* text after the last newline is a row only when it is not empty
parseCsv(text) ==
    IF Len(text) = 0 THEN <<>>
    ELSE LET raw == SplitFrom(text, NL, 1)
             lines == IF raw[Len(raw)] = <<>> THEN SubSeq(raw, 1, Len(raw) - 1)
                      ELSE raw
         IN [k \in 1..Len(lines) |-> SplitFrom(lines[k], COMMA, 1)]

(***************************************************************************)
(* Label reconciler (do_get.gs only).                                      *)
(***************************************************************************)
sLabel == <<"l", "a", "b", "e", "l">>
sBody == <<"b", "o", "d", "y">>
sOther == <<"o", "t", "h", "e", "r">>
sId == <<"i", "d">>
sArea == <<"a", "r", "e", "a">>
sText == <<"t", "e", "x", "t">>

\* Array.prototype.includes / indexOf (0 when absent, else the 1-based place)
IndexOf(row, cell) ==
    IF \E k \in 1..Len(row) : row[k] = cell
    THEN CHOOSE k \in 1..Len(row) : row[k] = cell /\ \A j \in 1..(k - 1) : row[j] # cell
    ELSE 0

\* (variation for C4: >= in place of >)
SynthLabelGe(x) == IF Len(x[2]) >= BodyThreshold THEN sBody ELSE sOther

\* (x[1].length>100)?"body":"other"
SynthLabel(x) == IF Len(x[2]) > BodyThreshold THEN sBody ELSE sOther

\* (variation for C5: the header is not inspected)
ReconcileAlways(data) ==
    IF Len(data) = 0 THEN [ok |-> FALSE, rows |-> data]
    ELSE IF \E k \in 1..Len(data) : Len(data[k]) < 2
         THEN [ok |-> FALSE, rows |-> data]
    ELSE [ok |-> TRUE,
          rows |-> [k \in 1..Len(data) |->
                       IF k = 1 THEN Append(data[1], sLabel)
                       ELSE Append(data[k], SynthLabel(data[k]))]]

\* the 'label' column block of downloadLabels; ok = FALSE is a TypeError
\* (data[0] undefined, or x[1] undefined)
Reconcile(data) ==
    IF Len(data) = 0 THEN [ok |-> FALSE, rows |-> data]
    ELSE IF IndexOf(data[1], sLabel) # 0 THEN [ok |-> TRUE, rows |-> data]
    ELSE IF \E k \in 1..Len(data) : Len(data[k]) < 2
         THEN [ok |-> FALSE, rows |-> data]
    ELSE [ok |-> TRUE,
          rows |-> [k \in 1..Len(data) |->
                       IF k = 1 THEN Append(data[1], sLabel)
                       ELSE Append(data[k], SynthLabel(data[k]))]]

\* the rows handed to the sheet synchroniser by each variant
Reconciled(v, data) ==
    IF v = "gs" THEN Reconcile(data) ELSE [ok |-> TRUE, rows |-> data]

(***************************************************************************)
(* The spreadsheet.                                                        *)
(***************************************************************************)
\* getSheetApp().getSheetByName(name): 0 stands for null
SheetIndex(ss, name) ==
    IF \E k \in 1..Len(ss) : ss[k].name = name
    THEN CHOOSE k \in 1..Len(ss) : ss[k].name = name
    ELSE 0

getSheet == SheetIndex(sheets, pdfId)

\* the name insertSheet() gives a new sheet: the first unused "SheetN"
DefaultName(ss) ==
    LET nm(n) == <<"S", "h", "e", "e", "t">> \o ToText(n)
        n0 == CHOOSE n \in 1..(Len(ss) + 1) :
                 /\ SheetIndex(ss, nm(n)) = 0
                 /\ \A m \in 1..(n - 1) : SheetIndex(ss, nm(m)) # 0
    IN nm(n0)

\* a written cell as the sheet stores and shows it: a numeral becomes a number
Normalize(cell) == IF IsNumeral(cell) THEN ToText(ToNumber(cell)) ELSE cell

\* oldSheet.getName() + '.old.' + (new Date()).toLocaleTimeString()
ArchiveName(name, t) == name \o <<".", "o", "l", "d", ".">> \o t

\* (variation for C1: the old sheet is deleted instead of renamed)
DeleteOld(ss, k, newName) == SubSeq(ss, 1, k - 1) \o SubSeq(ss, k + 1, Len(ss))

\* oldSheet.setName(...): the sheet stays, under the new name
RenameOld(ss, k, newName) == [ss EXCEPT ![k].name = newName]

Rectangular(rows) == \A k \in 1..Len(rows) : Len(rows[k]) = Len(rows[1])

\* "rename old sheet if needed" and "create new sheet and fill with the label
\* data"; ok = FALSE is an exception of the spreadsheet service or a TypeError,
\* and sheets is what had been done when it was thrown
SyncSheet(ss, data, t) ==
    LET old == SheetIndex(ss, pdfId)
        newName == ArchiveName(pdfId, t)
        s1 == IF old = 0 THEN ss ELSE RenameOld(ss, old, newName)
        s2 == Append(s1, [name |-> DefaultName(s1), rows |-> <<>>, bg |-> {}])
        s3 == [s2 EXCEPT ![Len(s2)].name = pdfId]
        s4 == [s3 EXCEPT ![Len(s3)].rows =
                    [r \in 1..Len(data) |->
                        [c \in 1..Len(data[r]) |-> Normalize(data[r][c])]]]
    IN  IF old # 0 /\ SheetIndex(ss, newName) # 0
            THEN [ok |-> FALSE, sheets |-> ss]      \* setName: name already used
        ELSE IF SheetIndex(s1, pdfId) # 0
            THEN [ok |-> FALSE, sheets |-> s2]      \* setName: name already used
        ELSE IF Len(data) = 0
            THEN [ok |-> FALSE, sheets |-> s3]      \* insertRows(1, 0), data[0]
        ELSE IF Len(data[1]) = 0 \/ ~Rectangular(data)
            THEN [ok |-> FALSE, sheets |-> s3]      \* getRange / setValues
        ELSE [ok |-> TRUE, sheets |-> s4]

(***************************************************************************)
(* updateLabel.                                                            *)
(***************************************************************************)
\* createTextFinder(id).findNext(): the first cell, row by row, whose text
\* contains the search text; <<>> stands for null
findNext(rows, id) ==
    LET hits == {rc \in {<<r, c>> : r \in 1..Len(rows), c \in 1..Len(rows[1])} :
                    Contains(rows[rc[1]][rc[2]], id)}
    IN  IF Len(rows) = 0 \/ hits = {} THEN <<>>
        ELSE CHOOSE rc \in hits :
                \A o \in hits : rc[1] < o[1] \/ (rc[1] = o[1] /\ rc[2] <= o[2])

\* updateLabel(id, label) on the rows of the current sheet: ok = FALSE is a
\* TypeError (no cell found) or a range exception (no 'label' header)
updateRows(rows, id, label) ==
    LET idRange == findNext(rows, id)
        idRow == idRange[1]
        labelColumn == IndexOf(rows[1], sLabel)
    IN  IF idRange = <<>> \/ labelColumn = 0
            THEN [ok |-> FALSE, rows |-> rows, cell |-> <<>>]
        ELSE [ok |-> TRUE,
              rows |-> [rows EXCEPT ![idRow][labelColumn] = Normalize(label)],
              cell |-> <<idRow, labelColumn>>]

(***************************************************************************)
(* getParaDict / buildParaDictFromSheet.                                   *)
(***************************************************************************)
\* sheet.getLastRow(), sheet.getLastColumn(): the last row/column with content
getLastRow(rows) ==
    LET used == {r \in 1..Len(rows) : \E c \in 1..Len(rows[r]) : rows[r][c] # <<>>}
    IN  IF used = {} THEN 0 ELSE CHOOSE r \in used : \A o \in used : o <= r

getLastColumn(rows) ==
    LET used == {c \in 1..(IF Len(rows) = 0 THEN 0 ELSE Len(rows[1])) :
                    \E r \in 1..Len(rows) : rows[r][c] # <<>>}
    IN  IF used = {} THEN 0 ELSE CHOOSE c \in used : \A o \in used : o <= c

\* getRange(row, 1, numRows, getLastColumn()).getValues(): rows below the
\* content are blank
getValues(rows, row, numRows) ==
    [k \in 1..numRows |->
        [c \in 1..getLastColumn(rows) |->
            IF row + k - 1 <= Len(rows) THEN rows[row + k - 1][c] ELSE <<>>]]

\* for (var i in row) features[headerList[i]] = row[i];
Features(headerList, row) ==
    [h \in {headerList[c] : c \in 1..Len(headerList)} |->
        row[CHOOSE c \in 1..Len(headerList) :
                /\ headerList[c] = h
                /\ \A d \in (c + 1)..Len(headerList) : headerList[d] # h]]

\* features.id.match(/(.*)-([0-9]+)-([0-9]+)/): the greedy (.*) takes the last
\* '-' that is followed by digits, '-' and a digit; page is m[2]
IdMatch(s) ==
    LET second(p) == {q \in (p + 2)..(Len(s) - 1) :
                        /\ s[q] = "-"
                        /\ \A k \in (p + 1)..(q - 1) : IsDigit(s[k])
                        /\ IsDigit(s[q + 1])}
        P == {p \in 1..Len(s) : s[p] = "-" /\ second(p) # {}}
    IN  IF P = {} THEN [ok |-> FALSE, page |-> <<>>]
        ELSE LET p == CHOOSE x \in P : \A y \in P : y <= x
                 q == CHOOSE x \in second(p) : TRUE
             IN [ok |-> TRUE, page |-> SubSeq(s, p + 1, q - 1)]

\* the value of a cell used as a number: cells read back are numbers when
\* numerals, and the empty string converts to 0 (other text is not generated)
NumVal(cell) == IF cell = <<>> THEN 0 ELSE ToNumber(cell)

\* (variation for C7: the comparator never answers 0)
compareAreaStrict(a, b) ==
    IF sArea \notin DOMAIN a THEN 0
    ELSE IF NumVal(a[sArea]) <= NumVal(b[sArea]) THEN 1 ELSE -1

\* function (a, b) { return a.area < b.area ? 1 : (a.area == b.area ? 0 : -1); }
compareArea(a, b) ==
    IF sArea \notin DOMAIN a THEN 0
    ELSE IF NumVal(a[sArea]) < NumVal(b[sArea]) THEN 1
    ELSE IF NumVal(a[sArea]) = NumVal(b[sArea]) THEN 0
    ELSE -1

\* Array.prototype.sort with that comparator (a stable sort)
RECURSIVE sortPage(_)
sortPage(recs) ==
    IF Len(recs) <= 1 THEN recs
    ELSE LET front == sortPage(SubSeq(recs, 1, Len(recs) - 1))
             x == recs[Len(recs)]
             keep == {j \in 0..Len(front) :
                        \A m \in 1..j : compareArea(front[m], x) <= 0}
             k == CHOOSE j \in keep : \A o \in keep : o <= j
         IN SubSeq(front, 1, k) \o <<x>> \o SubSeq(front, k + 1, Len(front))

\* one turn of vals.forEach(function(row) {...}) on the accumulator
\* [ok, dict, pageCount, paraCount]; ok = FALSE is the TypeError of
\* features.id.match on an undefined or a number
addRow(acc, headerList, row) ==
    LET features == Features(headerList, row)
        m == IdMatch(features[sId])
        page == m.page
    IN  IF ~acc.ok THEN acc
        ELSE IF sId \notin DOMAIN features \/ IsNumeral(features[sId])
            THEN [acc EXCEPT !.ok = FALSE]
        ELSE IF ~m.ok THEN acc
        ELSE IF page \in DOMAIN acc.dict
            THEN [acc EXCEPT !.dict[page] = sortPage(Append(@, features)),
                             !.paraCount = @ + 1]
        ELSE [acc EXCEPT !.dict = [x \in (DOMAIN acc.dict) \cup {page} |->
                                      IF x = page THEN sortPage(<<features>>)
                                      ELSE acc.dict[x]],
                         !.pageCount = @ + 1,
                         !.paraCount = @ + 1]

RECURSIVE forEachRow(_, _, _, _)
forEachRow(acc, headerList, vals, k) ==
    IF k > Len(vals) THEN acc
    ELSE forEachRow(addRow(acc, headerList, vals[k]), headerList, vals, k + 1)

\* buildParaDictFromSheet() on the rows of the current sheet
buildParaDictFromSheet(rows) ==
    LET start == [ok |-> TRUE, dict |-> <<>>, pageCount |-> 0, paraCount |-> 0]
    IN  IF getLastColumn(rows) = 0 THEN [start EXCEPT !.ok = FALSE]   \* getRange(1, 1, 1, 0)
        ELSE forEachRow(start, getValues(rows, 1, 1)[1],
                        getValues(rows, 2, getLastRow(rows)), 1)

(***************************************************************************)
(* Inputs: what the bucket holds.                                          *)
(***************************************************************************)
NotFound == [code |-> 404, body |-> <<"N", "o">>]

Found(text) == [code |-> 200, body |-> text]

d(page, para) == <<"d", "-">> \o ToText(page) \o <<"-">> \o ToText(para)

\* one small batch file per slot: slot 0 carries the header line
LabelRows(k) ==
    (IF k = 0 THEN <<(<<sId, sText, sLabel>>)>> ELSE <<>>)
        \o <<(<<d(k + 1, 1), <<"a", "b">>, sBody>>)>>

FeatureRows(k) ==
    (IF k = 0 THEN <<(<<sId, sText>>)>> ELSE <<>>)
        \o <<(<<d(k + 1, 1), <<"a", "b">>>>)>>

\* the bucket with label files in the slots L and feature files in the slots F
Bucket(L, F) ==
    [u \in Urls |->
        LET k == CHOOSE x \in Slots :
                    u[1] = batchId(BatchStart + BatchStep * x)
        IN  IF u[2] = "labels" /\ k \in L THEN Found(CsvText(LabelRows(k)))
            ELSE IF u[2] = "features" /\ k \in F THEN Found(CsvText(FeatureRows(k)))
            ELSE NotFound]

Upto(n) == {k \in Slots : k < n}

\* label files only; feature files only; a stray file after a gap; label and
\* feature files alternating; and the buckets in which every slot is filled
LoadCases ==
    {<<Upto(n), {}>> : n \in 0..MaxBatches}
        \cup {<<{}, Upto(n)>> : n \in 1..MaxBatches}
        \cup {<<Upto(n) \cup {n + 1}, {n + 1}>> : n \in 0..(MaxBatches - 1)}
        \cup {<<{k \in Upto(n) : k % 2 = 1}, {k \in Upto(n) : k % 2 = 0}>> :
                n \in 2..MaxBatches}
        \cup {<<Slots, {}>>, <<{}, Slots>>}

\* toLocaleTimeString() of the moments at which downloadLabels may run: a time
\* of day, which two different moments can share
LocaleTimes == {<<"1", "P", "M">>, <<"2", "P", "M">>}

UpdateIds == {d(1, 1), d(3, 1)}

Sheet1 == [name |-> <<"S", "h", "e", "e", "t", "1">>, rows |-> <<>>, bg |-> {}]

InitRest ==
    /\ sheets = <<Sheet1>>
    /\ pc = "idle"
    /\ i = 0
    /\ csv = <<>>
    /\ requests = <<>>
    /\ op = "none"
    /\ outcome = "none"
    /\ ret = <<>>
    /\ counts = <<0, 0>>
    /\ args = <<>>
    /\ touched = <<>>
    /\ before = <<Sheet1>>
    /\ labelData = <<>>

Init ==
    /\ variant \in {"gs", "js"}
    /\ \E lc \in LoadCases :
          /\ variant = "js" => lc[2] = {}
          /\ storage = Bucket(lc[1], lc[2])
    /\ dlLeft = MaxDownloads
    /\ upLeft = MaxUpdates
    /\ InitRest

(***************************************************************************)
(* The RPCs.                                                               *)
(***************************************************************************)
\* downloadLabels: entry, var csv = ''; i = 1
BeginDownload ==
    /\ pc = "idle"
    /\ dlLeft > 0
    /\ pc' = "loop"
    /\ i' = BatchStart
    /\ csv' = <<>>
    /\ requests' = <<>>
    /\ op' = "downloadLabels"
    /\ outcome' = "running"
    /\ before' = sheets
    /\ dlLeft' = dlLeft - 1
    /\ labelData' = <<>>
    /\ args' = <<>>
    /\ touched' = <<>>
    /\ UNCHANGED <<variant, storage, sheets, ret, counts, upLeft>>

Request(idx, url) == [i |-> idx, url |-> url, code |-> authFetch(url).code]

\* the text one turn of the loop appends, from its responses
Appended(v, respFeature, respLabel) ==
    IF respLabel.code = 200 THEN respLabel.body
    ELSE IF v = "gs" /\ respFeature.code = 200 THEN respFeature.body
    ELSE <<>>

\* the 'else' branch: break
Breaks(v, respFeature, respLabel) ==
    respLabel.code # 200 /\ (v = "js" \/ respFeature.code # 200)

\* (variation for C3: every other batch is skipped)
SkipIndex(idx) == idx + 2 * BatchStep

NextIndex(idx) == idx + BatchStep

\* downloadLabels: one turn of the download loop
FetchBatch ==
    /\ pc = "loop"
    /\ i < BatchStart + BatchStep * MaxFetch
    /\ LET respFeature == authFetch(urlFeature(i))
           respLabel == authFetch(urlLabel(i))
       IN  /\ requests' = requests \o
                  (IF variant = "gs" THEN <<Request(i, urlFeature(i))>> ELSE <<>>)
                  \o <<Request(i, urlLabel(i))>>
           /\ csv' = csv \o Appended(variant, respFeature, respLabel)
           /\ IF Breaks(variant, respFeature, respLabel)
                 THEN pc' = "parse" /\ i' = i
                 ELSE pc' = "loop" /\ i' = NextIndex(i)
    /\ UNCHANGED <<variant, storage, sheets, op, outcome, ret, counts, args,
                   touched, before, labelData, dlLeft, upLeft>>

\* downloadLabels: parse CSV, add the 'label' column, rename the old sheet,
\* create and fill the new one
FinishDownload(t) ==
    /\ pc = "parse"
    /\ LET rec == Reconciled(variant, parseCsv(csv))
           sync == SyncSheet(sheets, rec.rows, t)
       IN  /\ labelData' = rec.rows
           /\ sheets' = IF rec.ok THEN sync.sheets ELSE sheets
           /\ outcome' = IF rec.ok /\ sync.ok THEN "done" ELSE "fault"
    /\ pc' = "idle"
    /\ UNCHANGED <<variant, storage, i, csv, requests, op, ret, counts, args,
                   touched, before, dlLeft, upLeft>>

\* updateLabel(id, label)
UpdateLabel(id, label) ==
    /\ pc = "idle"
    /\ upLeft > 0
    /\ upLeft' = upLeft - 1
    /\ op' = "updateLabel"
    /\ args' = <<id, label>>
    /\ before' = sheets
    /\ IF getSheet = 0
          THEN /\ outcome' = "fault"
               /\ touched' = <<>>
               /\ sheets' = sheets
          ELSE LET u == updateRows(sheets[getSheet].rows, id, label)
               IN  /\ outcome' = IF u.ok THEN "done" ELSE "fault"
                   /\ touched' = u.cell
                   /\ sheets' = IF u.ok
                                THEN [sheets EXCEPT ![getSheet].rows = u.rows,
                                                    ![getSheet].bg = @ \cup {u.cell}]
                                ELSE sheets
    /\ UNCHANGED <<variant, storage, pc, i, csv, requests, ret, counts,
                   labelData, dlLeft>>

\* getParaDict()
GetParaDict ==
    /\ pc = "idle"
    /\ op' = "getParaDict"
    /\ before' = sheets
    /\ args' = <<>>
    /\ touched' = <<>>
    /\ IF getSheet = 0
          THEN outcome' = "null" /\ ret' = <<>> /\ counts' = <<0, 0>>
          ELSE LET b == buildParaDictFromSheet(sheets[getSheet].rows)
               IN  IF b.ok
                   THEN /\ outcome' = "json"
                        /\ ret' = b.dict
                        /\ counts' = <<b.pageCount, b.paraCount>>
                   ELSE outcome' = "fault" /\ ret' = <<>> /\ counts' = <<0, 0>>
    /\ UNCHANGED <<variant, storage, sheets, pc, i, csv, requests, labelData,
                   dlLeft, upLeft>>

Next ==
    \/ BeginDownload
    \/ FetchBatch
    \/ \E t \in LocaleTimes : FinishDownload(t)
    \/ \E id \in UpdateIds, label \in {sBody, sOther} : UpdateLabel(id, label)
    \/ GetParaDict

Spec == Init /\ [][Next]_vars

(***************************************************************************)
(* A second set of inputs: one batch file with generated rows, for the     *)
(* properties of the reconciler, of updateLabel and of the dictionary.     *)
(***************************************************************************)
SeqsUpTo(S, n) == UNION {[1..m -> S] : m \in 0..n}

T100 == [k \in 1..BodyThreshold |-> "x"]
T101 == T100 \o <<"x">>
Short == <<"a", "b">>

HFeat == <<sId, sText, sArea>>
HLab == <<sId, sText, sArea, sLabel>>
HOne == <<sId>>
HNoId == <<<<"k", "e", "y">>, sText, sArea>>

\* a label a reviewer gave: never the one the heuristic would give
Given(text) == IF Len(text) > BodyThreshold THEN sOther ELSE sBody

\* files whose text fields vary in length, with and without a label column,
\* and with the id column alone
TextCases ==
    UNION {{ <<HFeat>> \o [k \in 1..Len(ts) |-> <<d(1, k), ts[k], <<"5">>>>],
             <<HLab>> \o [k \in 1..Len(ts) |-> <<d(1, k), ts[k], <<"5">>, Given(ts[k])>>],
             <<HOne>> \o [k \in 1..Len(ts) |-> <<d(1, k)>>] } :
           ts \in SeqsUpTo({T100, T101, Short}, MaxRows)}

DataAreas == {<<"5", "0">>, <<"2", "0", "0">>}

\* <<id, area>> of a generated row: two ids of page 3, one the beginning of the
\* other, an id of page 4 and an id that is not of the form name-page-paragraph
DataRows ==
    ({d(3, 1), d(3, 10)} \X DataAreas)
        \cup {<<d(4, 1), <<"5", "0">>>>, <<<<"z", "z">>, <<"5", "0">>>>}

\* files whose ids and areas vary, with and without an id column
IdCases ==
    UNION {{ <<HFeat>> \o [k \in 1..Len(rs) |-> <<rs[k][1], Short, rs[k][2]>>],
             <<HNoId>> \o [k \in 1..Len(rs) |-> <<rs[k][1], Short, rs[k][2]>>] } :
           rs \in SeqsUpTo(DataRows, MaxRows)}

InitData ==
    /\ variant \in {"gs", "js"}
    /\ \E rows \in TextCases \cup IdCases :
          /\ variant = "js" => rows \in TextCases
          /\ storage = [u \in Urls |-> IF u = urlLabel(BatchStart)
                                       THEN Found(CsvText(rows)) ELSE NotFound]
    /\ dlLeft = 1
    /\ upLeft = 1
    /\ InitRest

SpecData == InitData /\ [][Next]_vars

(***************************************************************************)
(* Properties.                                                             *)
(***************************************************************************)
DownloadEnded == op = "downloadLabels" /\ pc = "idle"

Named(ss, name) == {k \in 1..Len(ss) : ss[k].name = name}

HasArchivalForm(name) ==
    \E t \in LocaleTimes : name = pdfId \o <<".", "o", "l", "d", ".">> \o t

\* C1: no step removes a sheet or renames an archived one, at most one sheet
\* is named <id>, and a downloadLabels that runs to completion leaves exactly
\* one sheet named <id>, the newly created one, with the sheet that held the
\* name before still there, rows intact, under a name <id>.old.<timestamp>.
C1_ArchiveNeverDelete ==
    [][ /\ Len(sheets') >= Len(sheets)
        /\ Cardinality(Named(sheets', pdfId)) <= 1
        /\ \A k \in 1..Len(sheets) :
              HasArchivalForm(sheets[k].name) => sheets'[k].name = sheets[k].name
        /\ (pc = "parse" /\ outcome' = "done") =>
              /\ Len(sheets') = Len(sheets) + 1
              /\ Named(sheets', pdfId) = {Len(sheets')}
              /\ \A k \in 1..Len(sheets) :
                    IF sheets[k].name = pdfId
                    THEN /\ HasArchivalForm(sheets'[k].name)
                         /\ sheets'[k].rows = sheets[k].rows
                    ELSE sheets'[k] = sheets[k]
      ]_vars

\* C1 witness: after a third completed download two archived sheets and the
\* current one are present
C1_Witness ==
    /\ DownloadEnded /\ outcome = "done"
    /\ Cardinality({k \in 1..Len(sheets) : HasArchivalForm(sheets[k].name)}) = 2
    /\ Named(sheets, pdfId) = {Len(sheets)}

\* C2: when the fetch of the first batch is not a success, the parsed row
\* sequence is empty and downloadLabels still runs to completion.
C2_FirstBatchMissingHandled ==
    (DownloadEnded /\ i = BatchStart) =>
        (parseCsv(csv) = <<>> /\ outcome = "done")

\* the text of batch idx as the bucket holds it: the label file, else (in
\* do_get.gs) the feature file
BatchText(idx) ==
    IF storage[urlLabel(idx)].code = 200 THEN storage[urlLabel(idx)].body
    ELSE storage[urlFeature(idx)].body

BatchPresent(idx) ==
    \/ storage[urlLabel(idx)].code = 200
    \/ variant = "gs" /\ storage[urlFeature(idx)].code = 200

PerBatch == IF variant = "gs" THEN 2 ELSE 1

\* C3: the fetches are made in batch order 1, 101, 201, ... (both candidates
\* of a batch in do_get.gs), every batch before the last requested one was
\* present, and once the loop has ended the last requested batch k is missing
\* and the text equals the bodies of the batches before k, in order.
C3_SequentialUntilFirstMissing ==
    (op = "downloadLabels") =>
        LET n == Len(requests) \div PerBatch
            idx(j) == 1 + 100 * (j - 1)
        IN  /\ Len(requests) = n * PerBatch
            /\ \A r \in 1..Len(requests) :
                  /\ requests[r].i = idx(((r - 1) \div PerBatch) + 1)
                  /\ requests[r].url[1] = batchId(requests[r].i)
                  /\ requests[r].url[2] =
                        (IF variant = "gs" /\ r % 2 = 1 THEN "features" ELSE "labels")
            /\ \A j \in 1..(n - 1) : BatchPresent(idx(j))
            /\ (pc # "loop") =>
                  /\ n >= 1
                  /\ i = idx(n)
                  /\ ~BatchPresent(idx(n))
                  /\ csv = Flatten([j \in 1..(n - 1) |-> BatchText(idx(j))])

\* C3 witness: batches 1 and 101 present and 201 missing; the loop has ended
C3_Witness ==
    /\ pc = "parse"
    /\ i = 201
    /\ Len(csv) > 0
    /\ csv = BatchText(1) \o BatchText(101)

\* C10: within one invocation no object is requested twice.
C10_NoFileRequestedTwice ==
    \A a, b \in 1..Len(requests) :
        a # b => requests[a].url # requests[b].url

\* the rows parseCsv gave the last downloadLabels
Parsed == parseCsv(csv)

\* out is data with one cell appended to every row: 'label' in the header row,
\* and in a data row "body" when the text field is longer than 100, else "other"
OneColumnAppended(data, out) ==
    /\ Len(out) = Len(data)
    /\ \A k \in 1..Len(data) :
          /\ Len(out[k]) = Len(data[k]) + 1
          /\ SubSeq(out[k], 1, Len(data[k])) = data[k]
          /\ out[k][Len(out[k])] =
                (IF k = 1 THEN sLabel
                 ELSE IF Len(data[k]) >= 2 /\ Len(data[k][2]) > 100 THEN sBody
                 ELSE sOther)

\* C4 as stated: for any parsed rows whose header has no 'label' column the
\* reconciler appends exactly one column to every row.
C4_AnyRowsGetLabelColumn ==
    (DownloadEnded /\ variant = "gs" /\ Len(Parsed) > 0
        /\ IndexOf(Parsed[1], sLabel) = 0)
    => OneColumnAppended(Parsed, labelData)

\* C4 as amended: the same, for parsed rows that all have at least two cells
\* (a text field at column index 1).
C4_RowsWithTextGetLabelColumn ==
    (DownloadEnded /\ variant = "gs" /\ Len(Parsed) > 0
        /\ IndexOf(Parsed[1], sLabel) = 0
        /\ \A k \in 1..Len(Parsed) : Len(Parsed[k]) >= 2)
    => OneColumnAppended(Parsed, labelData)

\* C4 witness: a file without 'label' column with a text of length 100 that
\* got "other" and a text of length 101 that got "body"
C4_Witness ==
    /\ DownloadEnded /\ variant = "gs" /\ outcome = "done"
    /\ Len(Parsed) > 0 /\ IndexOf(Parsed[1], sLabel) = 0
    /\ \E a, b \in 2..Len(labelData) :
          /\ Len(labelData[a][2]) = 100 /\ labelData[a][4] = sOther
          /\ Len(labelData[b][2]) = 101 /\ labelData[b][4] = sBody

\* C5: for parsed rows whose header has a 'label' column the reconciler is the
\* identity, and the rows written to the sheet are the parsed rows.
C5_LabelledRowsPassThrough ==
    (DownloadEnded /\ variant = "gs" /\ Len(Parsed) > 0
        /\ IndexOf(Parsed[1], sLabel) # 0)
    => /\ labelData = Parsed
       /\ outcome = "done" =>
             sheets[getSheet].rows =
                 [r \in 1..Len(Parsed) |->
                     [c \in 1..Len(Parsed[r]) |-> Normalize(Parsed[r][c])]]

\* C5 witness: a labelled file was written, keeping the label "other" of a row
\* whose text is longer than 100
C5_Witness ==
    /\ DownloadEnded /\ variant = "gs" /\ outcome = "done"
    /\ Len(Parsed) > 1 /\ IndexOf(Parsed[1], sLabel) = 4
    /\ \E r \in 2..Len(Parsed) :
          /\ Len(Parsed[r][2]) > 100
          /\ sheets[getSheet].rows[r][4] = sOther

\* C6: updateLabel writes the label cell of the first row whose id cell equals
\* the given id, and changes no other cell.
C6_ExactRowOnly ==
    (op = "updateLabel" /\ outcome = "done") =>
        LET s == SheetIndex(before, pdfId)
            rows == before[s].rows
            idColumn == IndexOf(rows[1], sId)
            labelColumn == IndexOf(rows[1], sLabel)
            r == touched[1]
        IN  /\ idColumn # 0
            /\ r > 1
            /\ rows[r][idColumn] = args[1]
            /\ \A q \in 2..(r - 1) : rows[q][idColumn] # args[1]
            /\ touched[2] = labelColumn
            /\ sheets[s].rows = [rows EXCEPT ![r][labelColumn] = args[2]]

\* C7: the keys of the dictionary are the pages of the data rows whose id has
\* the form name-page-paragraph; a page holds exactly the records of its rows,
\* by non-increasing area, rows of equal area in sheet order.
C7_PagesSortedStable ==
    (op = "getParaDict" /\ outcome = "json") =>
        LET rows == sheets[getSheet].rows
            idColumn == IndexOf(rows[1], sId)
            areaColumn == IndexOf(rows[1], sArea)
            area(r) == IF areaColumn = 0 THEN 0 ELSE NumVal(rows[r][areaColumn])
            good == {r \in 2..Len(rows) : IdMatch(rows[r][idColumn]).ok}
            of(p) == {r \in good : IdMatch(rows[r][idColumn]).page = p}
        IN  /\ idColumn # 0
            /\ DOMAIN ret = {IdMatch(rows[r][idColumn]).page : r \in good}
            /\ \A p \in DOMAIN ret :
                  /\ Len(ret[p]) = Cardinality(of(p))
                  /\ \E f \in [1..Len(ret[p]) -> of(p)] :
                        /\ \A j \in 1..Len(ret[p]) :
                              ret[p][j] = Features(rows[1], rows[f[j]])
                        /\ \A j, k \in 1..Len(ret[p]) :
                              j < k => \/ area(f[j]) > area(f[k])
                                       \/ area(f[j]) = area(f[k]) /\ f[j] < f[k]

\* C7 witness: rows d-3-1 (area 50), d-3-10 (area 200), d-4-1 (area 50) in this
\* order give "3" -> [area 200, area 50] and "4" -> [area 50]
C7_Witness ==
    /\ op = "getParaDict" /\ outcome = "json"
    /\ DOMAIN ret = {<<"3">>, <<"4">>}
    /\ Len(ret[<<"3">>]) = 2 /\ Len(ret[<<"4">>]) = 1
    /\ ret[<<"3">>][1][sId] = d(3, 10) /\ ret[<<"3">>][1][sArea] = <<"2", "0", "0">>
    /\ ret[<<"3">>][2][sId] = d(3, 1) /\ ret[<<"3">>][2][sArea] = <<"5", "0">>
    /\ sheets[getSheet].rows[2][1] = d(3, 1)

\* C8: a data row whose id is absent or not of the form name-page-paragraph is
\* in no page, is not counted, and does not make the build raise a fault.
C8_MalformedSilentlySkipped ==
    (op = "getParaDict" /\ getSheet # 0
        /\ getLastColumn(sheets[getSheet].rows) > 0
        /\ getLastRow(sheets[getSheet].rows) > 1) =>
        LET rows == sheets[getSheet].rows
            idColumn == IndexOf(rows[1], sId)
            good == {r \in 2..Len(rows) :
                        idColumn # 0 /\ IdMatch(rows[r][idColumn]).ok}
        IN  /\ outcome = "json"
            /\ counts[2] = Cardinality(good)
            /\ \A p \in DOMAIN ret : \A j \in 1..Len(ret[p]) :
                  IdMatch(ret[p][j][sId]).ok

\* C9: getParaDict returns null exactly when no sheet is named <id>, and a
\* JSON-encoded dictionary whenever such a sheet exists.
C9_NullIffNoSheet ==
    (op = "getParaDict") =>
        /\ (outcome = "null") <=> (getSheet = 0)
        /\ (getSheet # 0) => (outcome = "json")

====
